---- MODULE Spec2Model ----
(***************************************************************************)
(* Model of the chat-completions handler of the OpenAI -> NVIDIA NIM       *)
(* proxy: src/server.js and its variant src/unnamed/part_000.              *)
(*                                                                         *)
(* One request is followed from the moment axios.post has resolved.  A     *)
(* streaming request registers the 'data', 'end' and 'error' handlers of   *)
(* response.data; a non-streaming request maps the choices of the complete *)
(* body and answers with res.json.                                         *)
(*                                                                         *)
(* Text is a sequence of symbols.  A symbol is one character, except for   *)
(* the tokens listed under "JSON text" and the two tag tokens, which stand *)
(* for a fixed run of characters that none of the handler's string         *)
(* operations (split on newline, startsWith 'data: ', includes '[DONE]',   *)
(* slice(6)) can cut or match inside.                                      *)
(***************************************************************************)
EXTENDS Naturals, Sequences, FiniteSets

VARIABLES
  variant,           \* which source file runs: "server" or "part_000"
  stream,            \* req.body.stream
  model,             \* req.body.model
  nimModel,          \* let nimModel
  phase,             \* "received" | "awaiting" | "streaming" | "ended"
  error,             \* the exception the catch block received, if any
  resStatus,         \* status of the response head once sent, 0 before
  errorBodies,       \* the error bodies sent with res.status(..).json(..)
  source,            \* the upstream source: "open" | "end" | "error"
  upstream,          \* bytes the upstream source has not delivered yet
  fed,               \* bytes delivered so far in 'data' events (history)
  buffer,            \* let buffer
  reasoningStarted,  \* let reasoningStarted
  out,               \* the res.write calls made so far, in order
  log,               \* one entry per complete Line handled (history)
  clientClosed,      \* the downstream connection has closed
  body,              \* response.data.choices of a non-streaming call
  resJson,           \* choices passed to res.json
  peer               \* a second streaming request served at the same time

vars == <<variant, stream, model, nimModel, phase, error, resStatus,
          errorBodies, source, upstream, fed, buffer, reasoningStarted,
          out, log, clientClosed, body, resJson, peer>>

----------------------------------------------------------------------------
(* Bounds of the model *)

\* lines of a line-structured upstream stream
MaxLines == 2
\* length of a free-form upstream byte sequence
MaxBytes == 4
\* choices of a non-streaming body
MaxChoices == 1

\* res.json without res.status: the default status
OkStatus == 200
\* the status of the catch block when the error carries none
GenericStatus == 500

----------------------------------------------------------------------------
(* Characters and bytes *)

NL == "\n"
Quote == "\""

\* A two-byte UTF-8 character, its two bytes, and what a decoder puts in the
\* place of a byte that is no part of a complete character.
LeadByte == "0xC3"
ContByte == "0xA9"
TwoByteChar == "U+00E9"
ReplacementChar == "U+FFFD"

DataPrefix == <<"d", "a", "t", "a", ":", " ">>
Sentinel == <<"[", "D", "O", "N", "E", "]">>

(* JSON text: "{" stands for {"choices":[{"delta":{ and "}" for }}]} ;      *)
(* "R:" and "C:" are the keys "reasoning_content": and "content": ; "role"  *)
(* is the member "role":"assistant" ; "{}" is a complete record that has no *)
(* choices[0].delta ; "\\n" is the escape of a newline inside a string.     *)
LBrace == "{"
RBrace == "}"
KeyR == "R:"
KeyC == "C:"
Role == "role"
Comma == ","
NoDelta == "{}"
EscNL == "\\n"

OpenTag == "<think>"
CloseTag == "</think>"

----------------------------------------------------------------------------
(* String operations of the runtime *)

Drop(s, n) == SubSeq(s, n + 1, Len(s))

StartsWith(s, p) == Len(s) >= Len(p) /\ SubSeq(s, 1, Len(p)) = p

Includes(s, p) ==
  \E i \in 1..(Len(s) + 1) : i + Len(p) - 1 <= Len(s) /\ SubSeq(s, i, i + Len(p) - 1) = p

\* index of the first occurrence of symbol c in s, 0 when there is none
IndexOf(s, c) ==
  IF \E i \in 1..Len(s) : s[i] = c
    THEN CHOOSE i \in 1..Len(s) : s[i] = c /\ \A j \in 1..(i - 1) : s[j] # c
    ELSE 0

RECURSIVE Split(_)
Split(s) ==
  LET i == IndexOf(s, NL)
  IN  IF i = 0 THEN <<s>>
      ELSE <<SubSeq(s, 1, i - 1)>> \o Split(Drop(s, i))

RECURSIVE ToString(_)
ToString(bytes) ==
  IF bytes = <<>> THEN <<>>
  ELSE IF bytes[1] = LeadByte
    THEN IF Len(bytes) >= 2 /\ bytes[2] = ContByte
           THEN <<TwoByteChar>> \o ToString(Drop(bytes, 2))
           ELSE <<ReplacementChar>> \o ToString(Tail(bytes))
  ELSE IF bytes[1] = ContByte
    THEN <<ReplacementChar>> \o ToString(Tail(bytes))
  ELSE <<bytes[1]>> \o ToString(Tail(bytes))

----------------------------------------------------------------------------
(* JSON.parse and JSON.stringify, on the records the handler reads *)

\* line.slice(6)
PrefixLen == 6

(* A decoded record: hasDelta says whether choices[0].delta exists; role, rp *)
(* and cp say whether the delta has the members role, reasoning_content and  *)
(* content; r and c are the values of the last two (<<>> when absent).       *)
NoRecord ==
  [ok |-> FALSE, hasDelta |-> FALSE, role |-> FALSE,
   rp |-> FALSE, r |-> <<>>, cp |-> FALSE, c |-> <<>>]

EmptyDelta == [NoRecord EXCEPT !.ok = TRUE, !.hasDelta = TRUE]

Unescape(s) == [i \in 1..Len(s) |-> IF s[i] = EscNL THEN NL ELSE s[i]]

Escape(s) == [i \in 1..Len(s) |-> IF s[i] = NL THEN EscNL ELSE s[i]]

\* a string literal at the head of s: its value and what follows it
ParseStr(s) ==
  IF Len(s) >= 2 /\ s[1] = Quote /\ IndexOf(Tail(s), Quote) > 0
    THEN LET j == IndexOf(Tail(s), Quote)
         IN  [ok |-> TRUE, val |-> Unescape(SubSeq(s, 2, j)), rest |-> Drop(s, j + 1)]
    ELSE [ok |-> FALSE, val |-> <<>>, rest |-> <<>>]

\* the members of the delta object, a later member replacing an earlier one
RECURSIVE ParseMembers(_, _)
ParseMembers(s, acc) ==
  IF s = <<>> THEN NoRecord
  ELSE
    LET str  == ParseStr(Tail(s))
        next == IF s[1] = Role THEN [ok |-> TRUE, rec |-> [acc EXCEPT !.role = TRUE], rest |-> Tail(s)]
                ELSE IF s[1] = KeyR /\ str.ok
                  THEN [ok |-> TRUE, rec |-> [acc EXCEPT !.rp = TRUE, !.r = str.val], rest |-> str.rest]
                ELSE IF s[1] = KeyC /\ str.ok
                  THEN [ok |-> TRUE, rec |-> [acc EXCEPT !.cp = TRUE, !.c = str.val], rest |-> str.rest]
                ELSE [ok |-> FALSE, rec |-> NoRecord, rest |-> <<>>]
    IN  IF ~next.ok THEN NoRecord
        ELSE IF next.rest = <<>> THEN next.rec
        ELSE IF next.rest[1] = Comma THEN ParseMembers(Tail(next.rest), next.rec)
        ELSE NoRecord

\* JSON.parse(text); ok = FALSE stands for the SyntaxError it throws
JsonParse(text) ==
  IF text = <<NoDelta>> THEN [NoRecord EXCEPT !.ok = TRUE]
  ELSE IF Len(text) >= 2 /\ text[1] = LBrace /\ text[Len(text)] = RBrace
    THEN IF Len(text) = 2 THEN EmptyDelta
         ELSE ParseMembers(SubSeq(text, 2, Len(text) - 1), EmptyDelta)
  ELSE NoRecord

\* JSON.stringify(data)
JsonStringify(rec) ==
  IF ~rec.hasDelta THEN <<NoDelta>>
  ELSE
    LET m1 == IF rec.role THEN <<Role>> ELSE <<>>
        m2 == IF rec.rp THEN <<KeyR, Quote>> \o Escape(rec.r) \o <<Quote>> ELSE <<>>
        m3 == IF rec.cp THEN <<KeyC, Quote>> \o Escape(rec.c) \o <<Quote>> ELSE <<>>
        Join(a, b) == IF a = <<>> THEN b ELSE IF b = <<>> THEN a ELSE a \o <<Comma>> \o b
    IN  <<LBrace>> \o Join(Join(m1, m2), m3) \o <<RBrace>>

----------------------------------------------------------------------------
(* The reasoning splice of the 'data' handler *)

OPEN_DELIMITER == <<OpenTag, NL>>
CLOSE_DELIMITER == <<CloseTag, NL, NL>>

\* JavaScript truthiness of a string member: present and not ''
Truthy(present, val) == present /\ val # <<>>

\* SpliceText without the test !reasoningStarted before the opening tag
SpliceTextAlwaysOpen(rec, started) ==
  LET reasoning == Truthy(rec.rp, rec.r)
      content   == Truthy(rec.cp, rec.c)
      out1      == IF reasoning THEN OPEN_DELIMITER \o rec.r ELSE <<>>
      started1  == IF reasoning THEN TRUE ELSE started
      out2      == IF content /\ started1 THEN out1 \o CLOSE_DELIMITER \o rec.c
                   ELSE IF content THEN out1 \o rec.c
                   ELSE out1
      started2  == IF content /\ started1 THEN FALSE ELSE started1
  IN  [text |-> out2, started |-> started2]

\* SpliceText without the statement reasoningStarted = false
SpliceTextNoReset(rec, started) ==
  LET reasoning == Truthy(rec.rp, rec.r)
      content   == Truthy(rec.cp, rec.c)
      out1      == IF reasoning /\ ~started THEN OPEN_DELIMITER \o rec.r
                   ELSE IF reasoning THEN rec.r
                   ELSE <<>>
      started1  == IF reasoning /\ ~started THEN TRUE ELSE started
      out2      == IF content /\ started1 THEN out1 \o CLOSE_DELIMITER \o rec.c
                   ELSE IF content THEN out1 \o rec.c
                   ELSE out1
  IN  [text |-> out2, started |-> started1]

(* The two if / else-if pairs: the combined text and the flag after them. *)
SpliceText(rec, started) ==
  LET reasoning == Truthy(rec.rp, rec.r)
      content   == Truthy(rec.cp, rec.c)
      out1      == IF reasoning /\ ~started THEN OPEN_DELIMITER \o rec.r
                   ELSE IF reasoning THEN rec.r
                   ELSE <<>>
      started1  == IF reasoning /\ ~started THEN TRUE ELSE started
      out2      == IF content /\ started1 THEN out1 \o CLOSE_DELIMITER \o rec.c
                   ELSE IF content THEN out1 \o rec.c
                   ELSE out1
      started2  == IF content /\ started1 THEN FALSE ELSE started1
  IN  [text |-> out2, started |-> started2]

\* src/server.js: delta.content = out; delete delta.reasoning_content
SpliceServer(rec, started) ==
  LET s == SpliceText(rec, started)
  IN  [rec |-> [rec EXCEPT !.cp = TRUE, !.c = s.text, !.rp = FALSE, !.r = <<>>],
       started |-> s.started]

\* src/unnamed/part_000: the same two statements under if (combinedContent)
SplicePart(rec, started) ==
  LET s == SpliceText(rec, started)
  IN  [rec |-> IF s.text # <<>>
                 THEN [rec EXCEPT !.cp = TRUE, !.c = s.text, !.rp = FALSE, !.r = <<>>]
                 ELSE rec,
       started |-> s.started]

Splice(v, rec, started) ==
  IF v = "server" THEN SpliceServer(rec, started) ELSE SplicePart(rec, started)

----------------------------------------------------------------------------
(* The 'data' handler *)

Variants == {"server", "part_000"}

\* what one Line of lines.forEach does: the write it makes (<<>> for none),
\* the flag before and after, the record decoded and the record written
Entry(line, kind, before, after, inRec, outRec, wrote) ==
  [line |-> line, kind |-> kind, before |-> before, after |-> after,
   inRec |-> inRec, outRec |-> outRec, wrote |-> wrote]

\* ProcessData whose catch block also resets the flag
ProcessDataResetOnError(v, line, started, data) ==
  IF ~data.ok
    THEN Entry(line, "dropped", started, FALSE, NoRecord, NoRecord, <<>>)
  ELSE IF ~data.hasDelta
    THEN Entry(line, "nodelta", started, started, data, data,
               IF v = "server" THEN <<>>
               ELSE DataPrefix \o JsonStringify(data) \o <<NL, NL>>)
  ELSE LET sp == Splice(v, data, started)
       IN  Entry(line, "data", started, sp.started, data, sp.rec,
                 DataPrefix \o JsonStringify(sp.rec) \o <<NL, NL>>)

ProcessData(v, line, started, data) ==
  IF ~data.ok
    THEN Entry(line, "dropped", started, started, NoRecord, NoRecord, <<>>)
  ELSE IF ~data.hasDelta
    THEN Entry(line, "nodelta", started, started, data, data,
               IF v = "server" THEN <<>>
               ELSE DataPrefix \o JsonStringify(data) \o <<NL, NL>>)
  ELSE LET sp == Splice(v, data, started)
       IN  Entry(line, "data", started, sp.started, data, sp.rec,
                 DataPrefix \o JsonStringify(sp.rec) \o <<NL, NL>>)

\* ProcessLine with the [DONE] test made before the prefix test
ProcessLineSentinelFirst(v, line, started) ==
  IF Includes(line, Sentinel)
    THEN Entry(line, "terminal", started, started, NoRecord, NoRecord,
               IF v = "server" THEN line \o <<NL, NL>> ELSE line \o <<NL>>)
  ELSE IF ~StartsWith(line, DataPrefix)
    THEN Entry(line, "ignored", started, started, NoRecord, NoRecord, <<>>)
  ELSE ProcessData(v, line, started, JsonParse(Drop(line, PrefixLen)))

ProcessLine(v, line, started) ==
  IF ~StartsWith(line, DataPrefix)
    THEN Entry(line, "ignored", started, started, NoRecord, NoRecord, <<>>)
  ELSE IF Includes(line, Sentinel)
    THEN Entry(line, "terminal", started, started, NoRecord, NoRecord,
               IF v = "server" THEN line \o <<NL, NL>> ELSE line \o <<NL>>)
  ELSE ProcessData(v, line, started, JsonParse(Drop(line, PrefixLen)))

\* lines.forEach(...): the entries of the lines, in order
RECURSIVE ForEach(_, _, _)
ForEach(v, lines, started) ==
  IF lines = <<>> THEN <<>>
  ELSE LET e == ProcessLine(v, Head(lines), started)
       IN  <<e>> \o ForEach(v, Tail(lines), e.after)

\* buffer += chunk.toString(); lines = buffer.split(NL); buffer = lines.pop() || ''
Reassemble(buf, chunk) ==
  LET parts == Split(buf \o ToString(chunk))
  IN  [lines |-> SubSeq(parts, 1, Len(parts) - 1), buffer |-> parts[Len(parts)]]

RECURSIVE Writes(_)
Writes(entries) ==
  IF entries = <<>> THEN <<>>
  ELSE (IF Head(entries).wrote = <<>> THEN <<>> ELSE <<Head(entries).wrote>>)
       \o Writes(Tail(entries))

LastAfter(entries, started) ==
  IF entries = <<>> THEN started ELSE entries[Len(entries)].after

(* Where the transport may cut the stream into chunks.  A stream of at most  *)
(* MaxBytes bytes is cut anywhere.  A longer one is cut where the handler    *)
(* can tell the difference: at its end, right after a terminator, right      *)
(* before one, and one byte into a line.                                     *)
CutAt(whole, p) ==
  IF Len(whole) <= MaxBytes \/ p = Len(whole) \/ p = 1 THEN TRUE
  ELSE NL \in {whole[p - 1], whole[p], whole[p + 1]}

\* the status line goes out with the first write or with res.end()
HeadSent(status) == IF status = 0 THEN OkStatus ELSE status

\* response.data.on('data', chunk => ...) for a chunk of the first n pending bytes
OnData(n) ==
  /\ phase = "streaming"
  /\ n \in 1..Len(upstream)
  /\ CutAt(fed \o upstream, Len(fed) + n)
  /\ \E re \in {Reassemble(buffer, SubSeq(upstream, 1, n))} :
       \E entries \in {ForEach(variant, re.lines, reasoningStarted)} :
         /\ upstream' = Drop(upstream, n)
         /\ fed' = fed \o SubSeq(upstream, 1, n)
         /\ buffer' = re.buffer
         /\ reasoningStarted' = LastAfter(entries, reasoningStarted)
         /\ out' = out \o Writes(entries)
         /\ log' = log \o entries
         /\ resStatus' = IF Writes(entries) = <<>> THEN resStatus
                         ELSE HeadSent(resStatus)
  /\ UNCHANGED <<variant, stream, model, nimModel, phase, error, errorBodies,
                 source, clientClosed, body, resJson, peer>>

\* response.data.on('end', () => res.end())
OnEnd ==
  /\ phase = "streaming"
  /\ upstream = <<>>
  /\ source' = "end"
  /\ phase' = "ended"
  /\ resStatus' = HeadSent(resStatus)
  /\ UNCHANGED <<variant, stream, model, nimModel, error, errorBodies,
                 upstream, fed, buffer, reasoningStarted, out,
                 log, clientClosed, body, resJson, peer>>

\* OnError whose listener does not call res.end()
OnErrorUnhandled ==
  /\ phase = "streaming"
  /\ source = "open"
  /\ source' = "error"
  /\ UNCHANGED <<variant, stream, model, nimModel, phase, error, resStatus,
                 errorBodies, upstream, fed, buffer, reasoningStarted, out,
                 log, clientClosed, body, resJson, peer>>

\* response.data.on('error', () => res.end()): the source fails at any point
OnError ==
  /\ phase = "streaming"
  /\ source' = "error"
  /\ phase' = "ended"
  /\ resStatus' = HeadSent(resStatus)
  /\ UNCHANGED <<variant, stream, model, nimModel, error, errorBodies,
                 upstream, fed, buffer, reasoningStarted, out,
                 log, clientClosed, body, resJson, peer>>

\* The client goes away.  Neither file listens for it (no req.on('close'),
\* no AbortController / signal given to axios.post): only the fact is kept.
ClientClose ==
  /\ phase = "streaming"
  /\ ~clientClosed
  /\ clientClosed' = TRUE
  /\ UNCHANGED <<variant, stream, model, nimModel, phase, error, resStatus,
                 errorBodies, source, upstream, fed, buffer, reasoningStarted,
                 out, log, body, resJson, peer>>

----------------------------------------------------------------------------
(* A second streaming request.  Its handler is another call of the same     *)
(* arrow function: let buffer and let reasoningStarted are declared inside  *)
(* it, so the second request has its own pair.                              *)

PeerIdle ==
  [phase |-> "none", upstream |-> <<>>, fed |-> <<>>, buffer |-> <<>>,
   started |-> FALSE, out |-> <<>>]

\* PeerOnData with reasoningStarted declared once at module level
PeerOnDataShared(n) ==
  /\ peer.phase = "streaming"
  /\ n \in 1..Len(peer.upstream)
  /\ CutAt(peer.fed \o peer.upstream, Len(peer.fed) + n)
  /\ \E re \in {Reassemble(peer.buffer, SubSeq(peer.upstream, 1, n))} :
       \E entries \in {ForEach(variant, re.lines, reasoningStarted)} :
         /\ peer' = [peer EXCEPT !.upstream = Drop(peer.upstream, n),
                                 !.fed = peer.fed \o SubSeq(peer.upstream, 1, n),
                                 !.buffer = re.buffer,
                                 !.out = peer.out \o Writes(entries)]
         /\ reasoningStarted' = LastAfter(entries, reasoningStarted)
  /\ UNCHANGED <<variant, stream, model, nimModel, phase, error, resStatus,
                 errorBodies, source, upstream, fed, buffer,
                 out, log, clientClosed, body, resJson>>

\* the 'data' handler of the second request
PeerOnData(n) ==
  /\ peer.phase = "streaming"
  /\ n \in 1..Len(peer.upstream)
  /\ CutAt(peer.fed \o peer.upstream, Len(peer.fed) + n)
  /\ \E re \in {Reassemble(peer.buffer, SubSeq(peer.upstream, 1, n))} :
       \E entries \in {ForEach(variant, re.lines, peer.started)} :
         peer' = [peer EXCEPT !.upstream = Drop(peer.upstream, n),
                              !.fed = peer.fed \o SubSeq(peer.upstream, 1, n),
                              !.buffer = re.buffer,
                              !.started = LastAfter(entries, peer.started),
                              !.out = peer.out \o Writes(entries)]
  /\ UNCHANGED <<variant, stream, model, nimModel, phase, error, resStatus,
                 errorBodies, source, upstream, fed, buffer, reasoningStarted,
                 out, log, clientClosed, body, resJson>>

\* the 'end' handler of the second request
PeerOnEnd ==
  /\ peer.phase = "streaming"
  /\ peer.upstream = <<>>
  /\ peer' = [peer EXCEPT !.phase = "ended"]
  /\ UNCHANGED <<variant, stream, model, nimModel, phase, error, resStatus,
                 errorBodies, source, upstream, fed, buffer, reasoningStarted,
                 out, log, clientClosed, body, resJson>>

----------------------------------------------------------------------------
(* The non-streaming branch *)

\* one element of response.data.choices.map(...): message.content of the result
Aggregate(msg) ==
  LET fullContent == IF Truthy(msg.cp, msg.c) THEN msg.c ELSE <<>>
  IN  IF Truthy(msg.rp, msg.r)
        THEN <<OpenTag, NL>> \o msg.r \o <<NL, CloseTag, NL, NL>> \o fullContent
        ELSE fullContent

\* the non-streaming branch once axios.post has resolved: res.json({... choices ...})
NonStream ==
  /\ phase = "awaiting"
  /\ ~stream
  /\ resJson' = [i \in 1..Len(body) |-> Aggregate(body[i])]
  /\ resStatus' = OkStatus
  /\ phase' = "ended"
  /\ UNCHANGED <<variant, stream, model, nimModel, error, errorBodies, source,
                 upstream, fed, buffer, reasoningStarted, out,
                 log, clientClosed, body, peer>>

\* the streaming branch once axios.post has resolved: the headers are set and
\* the listeners registered
StartStream ==
  /\ phase = "awaiting"
  /\ stream
  /\ phase' = "streaming"
  /\ UNCHANGED <<variant, stream, model, nimModel, error, resStatus,
                 errorBodies, source, upstream, fed, buffer, reasoningStarted,
                 out, log, clientClosed, body, resJson, peer>>

----------------------------------------------------------------------------
(* Model routing and the catch block *)

\* a model id is a sequence of pieces, so that includes('/') can be computed
Id(a) == <<a>>
Path(org, name) == org \o <<"/">> \o name

\* the table, as pairs of a public id and its upstream id
MODEL_MAPPING ==
  { <<<<"deepseek", "-v3.2">>, Path(<<"deepseek", "-ai">>, <<"deepseek", "-v3.2">>)>>,
    <<<<"deepseek", "-r1">>, Path(<<"deepseek", "-ai">>, <<"deepseek", "-r1">>)>>,
    <<<<"deepseek", "-r1-0528">>, Path(<<"deepseek", "-ai">>, <<"deepseek", "-r1-0528">>)>>,
    <<Id("kimi-thinking"), Path(Id("moonshotai"), Id("kimi-k2-thinking"))>>,
    <<Id("kimi-k2"), Path(Id("moonshotai"), Id("kimi-k2-instruct"))>>,
    <<Id("gpt-3.5-turbo"), Path(Id("nvidia"), Id("llama-3.1-nemotron-ultra-253b-v1"))>>,
    <<Id("gpt-4"), Path(<<"deepseek", "-ai">>, <<"deepseek", "-v3.1">>)>>,
    <<Id("gpt-4-turbo"), Path(Id("moonshotai"), Id("kimi-k2-instruct-0905"))>>,
    <<Id("gpt-4o"), Path(<<"deepseek", "-ai">>, <<"deepseek", "-v3.1">>)>>,
    <<Id("claude-3-opus"), Path(<<"deepseek", "-ai">>, <<"deepseek", "-r1">>)>>,
    <<Id("claude-3-sonnet"), Path(<<"deepseek", "-ai">>, <<"deepseek", "-v3.2">>)>>,
    <<Id("gemini-pro"), Path(Id("qwen"), Id("qwen3-next-80b-a3b-thinking"))>> }

DefaultModel == Path(<<"deepseek", "-ai">>, <<"deepseek", "-v3.2">>)

\* req.body.model: a string, or undefined when the member is missing
Missing == [present |-> FALSE, id |-> <<>>]
Named(id) == [present |-> TRUE, id |-> id]

\* MODEL_MAPPING[model], <<>> standing for undefined
Lookup(m) ==
  IF m.present /\ \E p \in MODEL_MAPPING : p[1] = m.id
    THEN (CHOOSE p \in MODEL_MAPPING : p[1] = m.id)[2]
    ELSE <<>>

\* server.js: if (!nimModel && model) nimModel = model; if (!nimModel) default
SelectServer(m) ==
  LET n1 == Lookup(m)
      n2 == IF n1 = <<>> /\ Truthy(m.present, m.id) THEN m.id ELSE n1
  IN  [threw |-> FALSE, nimModel |-> IF n2 = <<>> THEN DefaultModel ELSE n2]

\* part_000: model.includes(..) is called on the raw member, which throws a
\* TypeError when the member is missing
SelectPart(m) ==
  LET n1 == Lookup(m)
  IN  IF n1 # <<>> THEN [threw |-> FALSE, nimModel |-> n1]
      ELSE IF ~m.present THEN [threw |-> TRUE, nimModel |-> <<>>]
      ELSE IF \/ Includes(m.id, <<"/">>)
              \/ Includes(m.id, <<"deepseek">>)
              \/ Includes(m.id, <<"meta">>)
        THEN [threw |-> FALSE, nimModel |-> m.id]
      ELSE [threw |-> FALSE, nimModel |-> DefaultModel]

SelectModel(v, m) == IF v = "server" THEN SelectServer(m) ELSE SelectPart(m)

NoError == [kind |-> "none", hasStatus |-> FALSE, status |-> 0]
TypeError == [kind |-> "TypeError", hasStatus |-> FALSE, status |-> 0]
\* a rejection of axios.post: with error.response.status, or without a response
Rejected(hasStatus, status) ==
  [kind |-> "upstream", hasStatus |-> hasStatus, status |-> status]

\* CatchStatus that ignores the upstream's status
CatchStatusGeneric(err) == GenericStatus

\* error.response?.status || 500
CatchStatus(err) ==
  IF err.hasStatus /\ err.status # 0 THEN err.status ELSE GenericStatus

\* catch (error) { res.status(..).json({ error: {..} }) }
Catch(err) ==
  /\ error' = err
  /\ resStatus' = CatchStatus(err)
  /\ errorBodies' = errorBodies + 1
  /\ phase' = "ended"

\* the handler up to await axios.post(..)
Route ==
  /\ phase = "received"
  /\ \E sel \in {SelectModel(variant, model)} :
       IF sel.threw
         THEN Catch(TypeError) /\ UNCHANGED nimModel
         ELSE /\ nimModel' = sel.nimModel
              /\ phase' = "awaiting"
              /\ UNCHANGED <<error, resStatus, errorBodies>>
  /\ UNCHANGED <<variant, stream, model, source, upstream, fed, buffer,
                 reasoningStarted, out, log, clientClosed, body, resJson, peer>>

\* axios.post rejects: the upstream answered with an error status, or the
\* call failed without a response
UpstreamFail(err) ==
  /\ phase = "awaiting"
  /\ Catch(err)
  /\ UNCHANGED <<variant, stream, model, nimModel, source, upstream, fed,
                 buffer, reasoningStarted, out, log, clientClosed, body,
                 resJson, peer>>

----------------------------------------------------------------------------
(* What the upstream can send *)

ReasoningValues == {<<"a">>}
ContentValues == {<<"b">>}

\* the deltas of the upstream: each member absent, '' or a non-empty string
\* (an empty reasoning_content comes without a content member)
Deltas ==
  {[EmptyDelta EXCEPT !.rp = rp, !.r = r, !.cp = cp, !.c = c] :
     rp \in BOOLEAN, r \in ReasoningValues \cup {<<>>},
     cp \in BOOLEAN, c \in ContentValues \cup {<<>>}}

WellFormed(d) ==
  /\ ~d.rp => d.r = <<>>
  /\ ~d.cp => d.c = <<>>
  /\ (d.rp /\ d.r = <<>>) => ~d.cp

DataLines ==
  {DataPrefix \o JsonStringify(d) : d \in {x \in Deltas : WellFormed(x)}}

OtherLines ==
  { DataPrefix \o Sentinel,                                   \* data: [DONE]
    Sentinel,                                                 \* [DONE] without the prefix
    <<>>,                                                     \* the blank line between events
    DataPrefix \o <<NoDelta>>,                                \* a record without choices[0].delta
    DataPrefix \o <<LBrace>>,                                 \* a payload that does not decode
    DataPrefix \o JsonStringify([EmptyDelta EXCEPT !.role = TRUE]),
    JsonStringify([EmptyDelta EXCEPT !.rp = TRUE, !.r = <<"a">>]),   \* a record without the prefix
    DataPrefix \o JsonStringify([EmptyDelta EXCEPT !.cp = TRUE, !.c = Sentinel]) }

LineTexts == DataLines \cup OtherLines

RECURSIVE Flatten(_)
Flatten(ls) == IF ls = <<>> THEN <<>> ELSE Head(ls) \o <<NL>> \o Flatten(Tail(ls))

RECURSIVE SeqsUpTo(_, _)
SeqsUpTo(S, n) ==
  IF n = 0 THEN {<<>>}
  ELSE LET shorter == SeqsUpTo(S, n - 1)
       IN  shorter \cup {Append(q, x) : q \in shorter, x \in S}

\* streams of whole lines, and free-form byte sequences
LineStreams == {Flatten(ls) : ls \in SeqsUpTo(LineTexts, MaxLines)}

\* streams that stop inside a line that lacks its terminator
Tails ==
  { DataPrefix \o Sentinel,
    DataPrefix \o JsonStringify([EmptyDelta EXCEPT !.cp = TRUE, !.c = <<"b">>]) }

TailStreams ==
  {Flatten(ls) \o t : ls \in SeqsUpTo(LineTexts, MaxLines - 1), t \in Tails}

\* two streams served at once: lines of reasoning and of content
PairLines ==
  { DataPrefix \o JsonStringify([EmptyDelta EXCEPT !.rp = TRUE, !.r = <<"a">>]),
    DataPrefix \o JsonStringify([EmptyDelta EXCEPT !.cp = TRUE, !.c = <<"b">>]) }

PairStreams == {Flatten(ls) : ls \in SeqsUpTo(PairLines, MaxLines)}

Bytes == {NL, "x", LeadByte, ContByte}

ByteStreams == SeqsUpTo(Bytes, MaxBytes)

\* the messages of a complete body
Messages == {d \in Deltas : WellFormed(d)}

Bodies == SeqsUpTo(Messages, MaxChoices)

\* the model members of the requests
ModelIds ==
  { Named(Id("gpt-4")), Named(<<"deepseek", "-r1">>),
    Named(Path(Id("acme"), Id("m1"))), Named(<<"deepseek", "-x">>),
    Named(<<"meta", "-llama">>), Named(Id("my-model")), Named(<<>>), Missing }

\* the upstream's answers are enumerated for one model id
StandardModel == Named(Id("gpt-4"))

\* the failures of the upstream call
UpstreamStatuses == {429}
Rejections ==
  {Rejected(TRUE, st) : st \in UpstreamStatuses} \cup {Rejected(FALSE, 0)}

----------------------------------------------------------------------------
(* The specification *)

Init ==
  /\ variant \in Variants
  /\ model \in ModelIds
  /\ \/ /\ stream = TRUE
        /\ upstream \in IF model = StandardModel
                          THEN LineStreams \cup ByteStreams \cup TailStreams
                          ELSE {<<>>}
        /\ body = <<>>
     \/ /\ stream = FALSE
        /\ upstream = <<>>
        /\ body \in IF model = StandardModel THEN Bodies ELSE {<<>>}
  /\ phase = "received"
  /\ nimModel = <<>>
  /\ error = NoError
  /\ resStatus = 0
  /\ errorBodies = 0
  /\ source = "open"
  /\ fed = <<>>
  /\ buffer = <<>>
  /\ reasoningStarted = FALSE
  /\ out = <<>>
  /\ log = <<>>
  /\ clientClosed = FALSE
  /\ resJson = <<>>
  /\ peer = PeerIdle

Next ==
  \/ Route
  \/ \E err \in Rejections : UpstreamFail(err)
  \/ StartStream
  \/ \E n \in 1..Len(upstream) : OnData(n)
  \/ OnEnd
  \/ OnError
  \/ ClientClose
  \/ NonStream

\* two streaming requests whose upstream calls have resolved
InitTwo ==
  /\ variant \in Variants
  /\ model = StandardModel
  /\ nimModel = SelectModel(variant, model).nimModel
  /\ stream = TRUE
  /\ phase = "streaming"
  /\ upstream \in PairStreams
  /\ \E u \in PairStreams :
       peer = [PeerIdle EXCEPT !.phase = "streaming", !.upstream = u]
  /\ body = <<>>
  /\ error = NoError
  /\ resStatus = 0
  /\ errorBodies = 0
  /\ source = "open"
  /\ fed = <<>>
  /\ buffer = <<>>
  /\ reasoningStarted = FALSE
  /\ out = <<>>
  /\ log = <<>>
  /\ clientClosed = FALSE
  /\ resJson = <<>>

NextTwo ==
  \/ \E n \in 1..Len(upstream) : OnData(n)
  \/ OnEnd
  \/ \E n \in 1..Len(peer.upstream) : PeerOnData(n)
  \/ PeerOnEnd

SpecTwo == InitTwo /\ [][NextTwo]_vars

Spec == Init /\ [][Next]_vars

----------------------------------------------------------------------------
(* Vocabulary of the properties *)

\* the Lines handled so far, in order
LinesOf(entries) == [i \in 1..Len(entries) |-> entries[i].line]

IsFrame(e) == e.kind = "data"

\* the Data frames that carried a Delta, in order
Frames == SelectSeq(log, IsFrame)

\* the visible text a frame's written record carries
Visible(e) == IF e.outRec.cp THEN e.outRec.c ELSE <<>>

Count(s, t) == Cardinality({i \in 1..Len(s) : s[i] = t})

EndsWith(s, p) == Len(s) >= Len(p) /\ SubSeq(s, Len(s) - Len(p) + 1, Len(s)) = p

RECURSIVE VisibleText(_)
VisibleText(fs) == IF fs = <<>> THEN <<>> ELSE Visible(Head(fs)) \o VisibleText(Tail(fs))

----------------------------------------------------------------------------
(* C1 -- Reassembly is independent of chunking: after the chunks delivered  *)
(* so far, the Lines handled and the pending buffer are those that feeding  *)
(* the same bytes as one single chunk into an empty buffer gives.           *)
C1_ChunkingIndependent ==
  stream =>
    /\ LinesOf(log) = Reassemble(<<>>, fed).lines
    /\ buffer = Reassemble(<<>>, fed).buffer

----------------------------------------------------------------------------
(* Bracketing, read off the Deltas alone *)

HasR(e) == Truthy(e.inRec.rp, e.inRec.r)
HasC(e) == Truthy(e.inRec.cp, e.inRec.c)

\* some non-empty reasoning fragment before frame i has no non-empty visible
\* fragment between it and frame i
OpenBefore(fs, i) ==
  \E j \in 1..(i - 1) : HasR(fs[j]) /\ \A k \in j..(i - 1) : ~HasC(fs[k])

Opens(fs, i) == HasR(fs[i]) /\ ~OpenBefore(fs, i)
Closes(fs, i) == HasC(fs[i]) /\ (HasR(fs[i]) \/ OpenBefore(fs, i))

Bracketed(fs, i) ==
  (IF Opens(fs, i) THEN OPEN_DELIMITER ELSE <<>>)
    \o (IF HasR(fs[i]) THEN fs[i].inRec.r ELSE <<>>)
    \o (IF Closes(fs, i) THEN CLOSE_DELIMITER ELSE <<>>)
    \o (IF HasC(fs[i]) THEN fs[i].inRec.c ELSE <<>>)

NoEmptyFragment(fs) ==
  \A i \in 1..Len(fs) : (fs[i].inRec.rp => fs[i].inRec.r # <<>>)
                        /\ (fs[i].inRec.cp => fs[i].inRec.c # <<>>)

\* first frames of the maximal contiguous runs of frames carrying reasoning
RunStarts(fs) ==
  {i \in 1..Len(fs) : fs[i].inRec.rp /\ (i = 1 \/ ~fs[i - 1].inRec.rp)}

----------------------------------------------------------------------------
\* the visible text of the two frames a streaming response would carry for
\* reasoning R alone and then content C alone, from CLOSED
StreamedText(v, R, C) ==
  LET f1 == Splice(v, [EmptyDelta EXCEPT !.rp = TRUE, !.r = R], FALSE)
      f2 == Splice(v, [EmptyDelta EXCEPT !.cp = TRUE, !.c = C], f1.started)
  IN  (IF f1.rec.cp THEN f1.rec.c ELSE <<>>) \o (IF f2.rec.cp THEN f2.rec.c ELSE <<>>)

(* C3 -- Non-stream equivalence: the content the non-streaming branch gives *)
(* a message with reasoning_content R and content C equals the visible text *)
(* the streaming splicer emits for a Delta with R alone then one with C.    *)
(* Stated for non-empty R and C.                                            *)
C3_NonStreamEqualsStream ==
  (~stream /\ phase = "ended" /\ error = NoError) =>
    \A i \in 1..Len(body) :
      (Truthy(body[i].rp, body[i].r) /\ Truthy(body[i].cp, body[i].c)) =>
        resJson[i] = StreamedText(variant, body[i].r, body[i].c)

----------------------------------------------------------------------------
(* C4 -- Cancellation on client disconnect: once the downstream connection  *)
(* has closed before the streaming response was finished, no further        *)
(* upstream chunk is processed and no further downstream write is made.     *)
C4_CancelOnDisconnect ==
  [][(clientClosed /\ phase = "streaming") => (fed' = fed /\ out' = out)]_vars

(* C5 -- Output ordering: the writes are those of the Lines in the order of *)
(* the Lines, and after a Terminal frame has been written no other frame is *)
(* written on the stream.                                                   *)
C5_TerminalIsLast ==
  /\ out = Writes(log)
  /\ \A i \in 1..Len(log) :
       log[i].kind = "terminal" => \A j \in (i + 1)..Len(log) : log[j].wrote = <<>>

(* C6 -- Terminal forwarding is verbatim: a Line with the data prefix whose *)
(* remainder contains [DONE] is written as the Line followed by its one     *)
(* terminator, is not decoded, and leaves the splice state as it was.       *)
C6_TerminalVerbatim ==
  \A i \in 1..Len(log) :
    (StartsWith(log[i].line, DataPrefix)
       /\ Includes(Drop(log[i].line, PrefixLen), Sentinel)) =>
      /\ log[i].wrote = log[i].line \o <<NL>>
      /\ log[i].kind = "terminal"
      /\ log[i].after = log[i].before

----------------------------------------------------------------------------
HasPrefix(e) == StartsWith(e.line, DataPrefix)

(* C7 -- Ignorability: a Line that does not begin with 'data: ' causes no   *)
(* downstream write and leaves the splice state as it was, whatever it      *)
(* contains; every write made comes from a Line that has the prefix.        *)
C7_Ignorable ==
  /\ \A i \in 1..Len(log) :
       ~HasPrefix(log[i]) =>
         /\ log[i].wrote = <<>>
         /\ log[i].after = log[i].before
         /\ log[i].kind = "ignored"
  /\ out = Writes(SelectSeq(log, HasPrefix))

\* a Line without the prefix that contains [DONE], met while reasoning is open
C7_Witness ==
  \E i \in 1..Len(log) :
    ~HasPrefix(log[i]) /\ Includes(log[i].line, Sentinel) /\ log[i].before

(* C8 -- Splicer opening rule: a frame whose delta has a reasoning fragment *)
(* r (the empty string included) emits OPEN_DELIMITER then r and opens when *)
(* the state is CLOSED, and emits r with no delimiter when it is OPEN; the  *)
(* state is OPEN afterwards unless the frame's visible fragment closes it.  *)
C8_OpeningRule ==
  \A i \in 1..Len(Frames) :
    LET e == Frames[i]
    IN  e.inRec.rp =>
          /\ ~e.before => StartsWith(Visible(e), OPEN_DELIMITER \o e.inRec.r)
          /\ e.before => /\ StartsWith(Visible(e), e.inRec.r)
                         /\ Count(Visible(e), OpenTag) = 0
          /\ ~e.inRec.cp => e.after

(* C9 -- Splicer closing rule: a frame whose delta has a visible fragment c *)
(* (the empty string included) ends with CLOSE_DELIMITER then c when the    *)
(* state is OPEN once its reasoning was handled, and carries c as it is     *)
(* when the state is CLOSED; the state is CLOSED afterwards.                *)
C9_ClosingRule ==
  \A i \in 1..Len(Frames) :
    LET e    == Frames[i]
        open == e.before \/ HasR(e)
    IN  e.inRec.cp =>
          /\ open => EndsWith(Visible(e), CLOSE_DELIMITER \o e.inRec.c)
          /\ ~open => Visible(e) = e.inRec.c
          /\ ~e.after

(* C10 -- No-op frames are untouched: a frame whose delta has neither a     *)
(* reasoning fragment nor a visible fragment is written as the decoded      *)
(* record, no member added or removed, and leaves the splice state alone.   *)
C10_NoOpUntouched ==
  \A i \in 1..Len(Frames) :
    LET e == Frames[i]
    IN  (~e.inRec.rp /\ ~e.inRec.cp) =>
          /\ e.outRec = e.inRec
          /\ e.wrote = DataPrefix \o JsonStringify(e.inRec) \o <<NL, NL>>
          /\ e.after = e.before

----------------------------------------------------------------------------
(* C11 -- Hidden reasoning never reaches the client as a separate field:    *)
(* the record written for a frame whose delta carried a reasoning fragment  *)
(* (the empty string included) has no reasoning member, and the reasoning   *)
(* text is inside its content.                                              *)
C11_ReasoningRemoved ==
  \A i \in 1..Len(Frames) :
    LET e == Frames[i]
    IN  e.inRec.rp =>
          /\ ~e.outRec.rp
          /\ e.wrote = DataPrefix \o JsonStringify(e.outRec) \o <<NL, NL>>
          /\ Includes(Visible(e), e.inRec.r)

----------------------------------------------------------------------------
IsKept(e) == e.kind # "dropped"

(* C12 -- Decode failures are local: a Line with the prefix whose payload   *)
(* does not decode makes no write and leaves the splice state as it was,    *)
(* and the other Lines are handled, and written, as they are when the bad   *)
(* Lines are taken out of the stream.                                       *)
C12_DecodeFailureLocal ==
  /\ \A i \in 1..Len(log) :
       (HasPrefix(log[i]) /\ ~Includes(log[i].line, Sentinel)
          /\ ~JsonParse(Drop(log[i].line, PrefixLen)).ok) =>
         /\ log[i].kind = "dropped"
         /\ log[i].wrote = <<>>
         /\ log[i].after = log[i].before
  /\ SelectSeq(log, IsKept) = ForEach(variant, LinesOf(SelectSeq(log, IsKept)), FALSE)
  /\ out = Writes(SelectSeq(log, IsKept))

\* a payload that fails to decode while reasoning is open, or before a Line
\* that is written
C12_Witness ==
  \E i \in 1..Len(log) :
    /\ log[i].kind = "dropped"
    /\ log[i].before \/ \E j \in (i + 1)..Len(log) : log[j].wrote # <<>>

----------------------------------------------------------------------------
\* what a stream produces when it is the only one served: the handler run on
\* all its bytes from an empty buffer and a false flag
RunAlone(v, bytes) ==
  LET re      == Reassemble(<<>>, bytes)
      entries == ForEach(v, re.lines, FALSE)
  IN  [buffer |-> re.buffer, started |-> LastAfter(entries, FALSE),
       out |-> Writes(entries)]

(* C13 -- Stream isolation: with two streaming requests whose 'data' and    *)
(* 'end' events interleave in any order, the pending buffer, the flag and   *)
(* the writes of each stream are those the stream has when it is served     *)
(* alone on the bytes it has received.                                      *)
C13_StreamIsolation ==
  /\ LET a == RunAlone(variant, fed)
     IN  buffer = a.buffer /\ reasoningStarted = a.started /\ out = a.out
  /\ LET b == RunAlone(variant, peer.fed)
     IN  peer.buffer = b.buffer /\ peer.started = b.started /\ peer.out = b.out

\* both streams are in mid-course, both have written, one has reasoning open
\* and the other has not
C13_Witness ==
  /\ upstream # <<>> /\ peer.upstream # <<>>
  /\ out # <<>> /\ peer.out # <<>>
  /\ reasoningStarted # peer.started

----------------------------------------------------------------------------
----------------------------------------------------------------------------
(* C15 -- Once the streaming response has started, an 'end' or an 'error'   *)
(* of the source ends the response in the same step, with no error body,    *)
(* without changing a status already sent and without a write; and nothing  *)
(* is written once the response has ended.                                  *)
C15_EndTerminates ==
  [][/\ (source = "open" /\ source' # "open") =>
          /\ phase' = "ended"
          /\ errorBodies' = errorBodies
          /\ resStatus' = HeadSent(resStatus)
          /\ out' = out
     /\ phase = "ended" => (out' = out /\ phase' = "ended")]_vars

\* the source failed in mid-stream, after a frame was written
C15_Witness ==
  /\ source = "error"
  /\ phase = "ended"
  /\ out # <<>>
  /\ upstream # <<>>

----------------------------------------------------------------------------
(* C16 -- Non-stream aggregation rule: a message with a reasoning field     *)
(* gets the content OPEN_DELIMITER + reasoning + CLOSE_DELIMITER + content, *)
(* with the delimiters of the streaming splicer; a message without one      *)
(* keeps its content.                                                       *)
C16_AggregationRule ==
  (~stream /\ phase = "ended" /\ error = NoError) =>
    \A i \in 1..Len(body) :
      resJson[i] = IF body[i].rp
                     THEN OPEN_DELIMITER \o body[i].r \o CLOSE_DELIMITER \o body[i].c
                     ELSE body[i].c

----------------------------------------------------------------------------
\* the bytes after the last terminator
SinceLastTerminator(bytes) == Split(bytes)[Len(Split(bytes))]

(* C17 -- Pending tail is never a Line: the pending buffer holds no         *)
(* terminator and is the text of the bytes received since the last one; as  *)
(* many Lines were handled as terminators were received, and every write,   *)
(* also once the stream has ended, comes from one of them.                  *)
C17_PendingTail ==
  stream =>
    /\ ~Includes(buffer, <<NL>>)
    /\ buffer = ToString(SinceLastTerminator(fed))
    /\ Len(log) = Count(fed, NL)
    /\ out = Writes(log)

----------------------------------------------------------------------------
(* C18 -- Unknown model identifiers are not an error: once routed, the      *)
(* upstream model is the mapped id for an id of the table, the id itself    *)
(* for another non-empty id, and the default model when the id is missing   *)
(* or empty; routing throws nothing.                                        *)
C18_Routing ==
  phase # "received" =>
    /\ error.kind # "TypeError"
    /\ nimModel = IF Lookup(model) # <<>> THEN Lookup(model)
                  ELSE IF model.present /\ model.id # <<>> THEN model.id
                  ELSE DefaultModel

----------------------------------------------------------------------------
(* C19 -- Only ignorable lines are dropped: every Line with the prefix that *)
(* is not Terminal and whose payload decodes makes one write, the record    *)
(* re-serialized, also when the record has no choices[0].delta; a Line      *)
(* that makes no write lacks the prefix or fails to decode.                 *)
C19_OneWritePerRecord ==
  \A i \in 1..Len(log) :
    LET e       == log[i]
        decoded == /\ HasPrefix(e)
                   /\ ~Includes(e.line, Sentinel)
                   /\ JsonParse(Drop(e.line, PrefixLen)).ok
    IN  /\ decoded => e.wrote = DataPrefix \o JsonStringify(e.outRec) \o <<NL, NL>>
        /\ e.wrote = <<>> => ~decoded

----------------------------------------------------------------------------
RECURSIVE Concat(_)
Concat(ws) == IF ws = <<>> THEN <<>> ELSE Head(ws) \o Concat(Tail(ws))

\* the number of unmatched opening tags at the end of a text, reading it from
\* depth d; 2 stands for a text that closes at depth 0 or opens at depth 1
RECURSIVE Depth(_, _)
Depth(text, d) ==
  IF text = <<>> THEN d
  ELSE IF Head(text) = OpenTag
    THEN (IF d = 0 THEN Depth(Tail(text), 1) ELSE 2)
  ELSE IF Head(text) = CloseTag
    THEN (IF d = 1 THEN Depth(Tail(text), 0) ELSE 2)
  ELSE Depth(Tail(text), d)

(* C20 -- Delimiter balance: in the text written so far the opening and     *)
(* closing delimiters alternate, beginning with an opening one, and one     *)
(* opening delimiter is unmatched when reasoningStarted is true and none    *)
(* when it is false, also after a Terminal frame and after the stream's end. *)
C20_DelimiterBalance ==
  stream => Depth(Concat(out), 0) = IF reasoningStarted THEN 1 ELSE 0

\* a stream that ended while reasoning was open, after a Terminal frame
C20_Witness ==
  /\ phase = "ended"
  /\ source = "end"
  /\ reasoningStarted
  /\ \E i \in 1..Len(log) : log[i].kind = "terminal"

====
